---- MODULE Spec2Model ----
(***************************************************************************)
(* The Factory Method sample (src/FactoryMethod): the creator Logistics    *)
(* with its template method plan_delivery, the concrete creators           *)
(* RoadLogistics and SeaLogistics, and main.py, modelled as a small        *)
(* interpreter: a heap of objects, a call stack whose frames carry the     *)
(* source line they stand on, a return register, a pending exception and   *)
(* standard output.  main.py either runs as the script (lines 8-12) or is  *)
(* imported, and then an importing client calls the operations in any      *)
(* order.                                                                  *)
(***************************************************************************)
EXTENDS Naturals, Sequences, FiniteSets

VARIABLES
    name,      \* __name__ of main.py: "__main__" (run as script) or "main" (imported)
    heap,      \* heap[i] is the class of object i; objects are numbered as allocated
    stack,     \* the call stack, bottom frame first
    ret,       \* the value the last completed call returned
    exc,       \* the exception being raised, "" when none
    stdout,    \* the lines written to standard output
    status,    \* "running", "exit0" or "exit1"
    held,      \* the objects the importing client keeps a reference to
    nops,      \* the operations the importing client has started
    trace      \* history: every call, return, allocation, print, raise

vars == <<name, heap, stack, ret, exc, stdout, status, held, nops, trace>>

\* ---------------------------------------------------------------- bounds

\* The importing client starts at most MaxOps operations ...
MaxOps == 4
\* ... and none once the heap holds MaxObjects objects.
MaxObjects == 4

\* ---------------------------------------------------------------- values

NoneVal == [t |-> "none", o |-> 0, s |-> ""]
ObjVal(i) == [t |-> "obj", o |-> i, s |-> ""]
StrVal(x) == [t |-> "str", o |-> 0, s |-> x]

\* str(v), as print applies it to its argument
Str(v) == IF v.t = "str" THEN v.s ELSE IF v.t = "none" THEN "None" ELSE "<object>"

\* ---------------------------------------------------------------- classes

Creators == {"RoadLogistics", "SeaLogistics"}
Products == {"Truck", "Ship"}
Classes == {"Logistics", "Transport"} \cup Creators \cup Products

\* The base class each class statement of the creators names.
CreatorBase(c) == IF c \in Creators THEN "Logistics" ELSE "ABC"

\* The base class of each product class.
ProductBase(c) == IF c \in Products THEN "Transport" ELSE "ABC"

Base(c) == IF c \in Creators \cup {"Logistics"} THEN CreatorBase(c) ELSE ProductBase(c)

\* Mutant of CreatorMethods: RoadLogistics overrides plan_delivery as well.
CreatorMethodsOverriding(c) ==
    IF c = "Logistics" THEN {"create_transport", "plan_delivery"}
    ELSE IF c = "RoadLogistics" THEN {"create_transport", "plan_delivery"}
    ELSE {"create_transport"}

\* The methods each creator's class body defines.
CreatorMethods(c) ==
    IF c = "Logistics" THEN {"create_transport", "plan_delivery"}
    ELSE {"create_transport"}

\* The methods each product's class body defines.
ProductMethods(c) == {"deliver"}

Methods(c) ==
    IF c \in Creators \cup {"Logistics"} THEN CreatorMethods(c)
    ELSE IF c \in Products \cup {"Transport"} THEN ProductMethods(c)
    ELSE {}

\* Mutant of CreatorAbstractDefs: the @abstractmethod decorator left out.
NoAbstractDefs == {}

\* The definitions decorated with @abstractmethod.
CreatorAbstractDefs == {<<"Logistics", "create_transport">>}

ProductAbstractDefs == {<<"Transport", "deliver">>}

AbstractDefs == CreatorAbstractDefs \cup ProductAbstractDefs

\* Attribute lookup along the base classes: the class whose body supplies m.
RECURSIVE Resolve(_, _)
Resolve(c, m) ==
    IF c = "ABC" THEN "ABC"
    ELSE IF m \in Methods(c) THEN c
    ELSE Resolve(Base(c), m)

AllMethods == UNION {Methods(c) : c \in Classes}

\* ABCMeta: a class is abstract while one of its methods still resolves to an
\* @abstractmethod definition.
IsAbstract(c) == \E m \in AllMethods : <<Resolve(c, m), m>> \in AbstractDefs

\* The delivery descriptions of the concrete products.
TruckDescription == "Deliver by land in a box"
ShipDescription == "Deliver by sea in a container"

DeliverResult(c) == IF c = "Truck" THEN TruckDescription ELSE ShipDescription

\* ---------------------------------------------------------------- frames

\* fn: the function; impl: the class (or module) whose body runs; pc: the source
\* line the frame stands on; after: the call on that line has returned;
\* self, logistics, transport: the parameters and locals of the source.
Frame(fn, impl, pc, self) ==
    [fn |-> fn, impl |-> impl, pc |-> pc, self |-> self, logistics |-> 0,
     transport |-> NoneVal, after |-> FALSE]

ClientCodeFrame(o) == [Frame("client_code", "main", 5, 0) EXCEPT !.logistics = o]

Top == stack[Len(stack)]
Depth == Len(stack)

\* One entry of the history: what happened (ev), in which function (fn) as which
\* class defines it (impl), on which object (obj), with which value (val), and
\* the function that was running (from).
Event(ev, fn, impl, obj, val) ==
    [ev |-> ev, fn |-> fn, impl |-> impl, obj |-> obj, val |-> val, from |-> Top.fn]

Log(e) == Append(trace, e)

Running == status = "running" /\ exc = ""

\* Replace the top frame.
SetTop(f) == [stack EXCEPT ![Len(stack)] = f]

\* Call: push the callee's frame; the caller stays on its line.
Push(f) == Append(stack, f)

\* Return: pop the top frame and mark the caller as resumed on its line.
PopResume ==
    LET s == SubSeq(stack, 1, Len(stack) - 1)
    IN [s EXCEPT ![Len(s)].after = TRUE]

\* The first line of the body of method m as class c defines it.
BodyLine(c, m) ==
    CASE m = "plan_delivery" -> 10
      [] m = "create_transport" /\ c = "RoadLogistics" -> 7
      [] m = "create_transport" /\ c = "SeaLogistics" -> 11
      [] m = "create_transport" /\ c = "Logistics" -> 7
      [] OTHER -> 0

\* o.m(): dispatch on the class of o.
MethodFrame(o, m) ==
    LET impl == Resolve(heap[o], m)
    IN Frame(m, impl, BodyLine(impl, m), o)

\* ---------------------------------------------------------------- Init

Init ==
    /\ name \in {"__main__", "main"}
    /\ heap = <<>>
    /\ stack = IF name = "__main__"
               THEN <<Frame("<module>", "main", 8, 0)>>
               ELSE <<Frame("<client>", "client", 0, 0)>>
    /\ ret = NoneVal
    /\ exc = ""
    /\ stdout = <<>>
    /\ status = "running"
    /\ held = {}
    /\ nops = 0
    /\ trace = <<>>

\* ---------------------------------------------------------------- Logistics

\* Mutant of PlanDeliveryCallCreate: Logistics.create_transport(self), the
\* abstract body called instead of the one the class of self supplies.
PlanDeliveryCallCreateStatic ==
    /\ Running
    /\ Top.fn = "plan_delivery" /\ Top.impl = "Logistics"
    /\ Top.pc = 10 /\ ~Top.after
    /\ LET f == Frame("create_transport", "Logistics", 7, Top.self)
       IN /\ stack' = Push(f)
          /\ trace' = Log(Event("call", f.fn, f.impl, f.self, NoneVal))
    /\ UNCHANGED <<name, heap, ret, exc, stdout, status, held, nops>>

\* plan_delivery, line 10, the call: self.create_transport()
PlanDeliveryCallCreate ==
    /\ Running
    /\ Top.fn = "plan_delivery" /\ Top.impl = "Logistics"
    /\ Top.pc = 10 /\ ~Top.after
    /\ LET f == MethodFrame(Top.self, "create_transport")
       IN /\ stack' = Push(f)
          /\ trace' = Log(Event("call", f.fn, f.impl, f.self, NoneVal))
    /\ UNCHANGED <<name, heap, ret, exc, stdout, status, held, nops>>

\* Mutant of PlanDeliveryAssign: line 11 returns the transport itself, deliver
\* never called.
PlanDeliveryAssignSkipsDeliver ==
    /\ Running
    /\ Top.fn = "plan_delivery" /\ Top.impl = "Logistics"
    /\ Top.pc = 10 /\ Top.after
    /\ stack' = SetTop([Top EXCEPT !.transport = ret, !.pc = 11, !.after = TRUE])
    /\ UNCHANGED <<name, heap, ret, exc, stdout, status, held, nops, trace>>

\* plan_delivery, line 10, the assignment: transport = <the value returned>
PlanDeliveryAssign ==
    /\ Running
    /\ Top.fn = "plan_delivery" /\ Top.impl = "Logistics"
    /\ Top.pc = 10 /\ Top.after
    /\ stack' = SetTop([Top EXCEPT !.transport = ret, !.pc = 11, !.after = FALSE])
    /\ UNCHANGED <<name, heap, ret, exc, stdout, status, held, nops, trace>>

\* plan_delivery, line 11, the call: transport.deliver(); None has no deliver
PlanDeliveryCallDeliver ==
    /\ Running
    /\ Top.fn = "plan_delivery" /\ Top.impl = "Logistics"
    /\ Top.pc = 11 /\ ~Top.after
    /\ IF Top.transport.t = "obj" /\ Resolve(heap[Top.transport.o], "deliver") # "ABC"
       THEN LET f == MethodFrame(Top.transport.o, "deliver")
            IN /\ stack' = Push(f)
               /\ trace' = Log(Event("call", f.fn, f.impl, f.self, NoneVal))
               /\ exc' = exc
       ELSE /\ exc' = "AttributeError"
            /\ trace' = Log(Event("raise", "plan_delivery", "Logistics", Top.self,
                                   StrVal("AttributeError")))
            /\ stack' = stack
    /\ UNCHANGED <<name, heap, ret, stdout, status, held, nops>>

\* Mutant of PlanDeliveryReturn: the return statement forgotten, so that the
\* call returns None.
PlanDeliveryReturnsNothing ==
    /\ Running
    /\ Top.fn = "plan_delivery" /\ Top.impl = "Logistics"
    /\ Top.pc = 11 /\ Top.after
    /\ stack' = PopResume
    /\ ret' = NoneVal
    /\ trace' = Log(Event("ret", "plan_delivery", "Logistics", Top.self, NoneVal))
    /\ UNCHANGED <<name, heap, exc, stdout, status, held, nops>>

\* plan_delivery, line 11, the return: return <the value deliver returned>
PlanDeliveryReturn ==
    /\ Running
    /\ Top.fn = "plan_delivery" /\ Top.impl = "Logistics"
    /\ Top.pc = 11 /\ Top.after
    /\ stack' = PopResume
    /\ ret' = ret
    /\ trace' = Log(Event("ret", "plan_delivery", "Logistics", Top.self, ret))
    /\ UNCHANGED <<name, heap, exc, stdout, status, held, nops>>

\* Logistics.create_transport, line 7: pass; the call returns None
LogisticsCreateTransport ==
    /\ Running
    /\ Top.fn = "create_transport" /\ Top.impl = "Logistics" /\ Top.pc = 7
    /\ stack' = PopResume
    /\ ret' = NoneVal
    /\ trace' = Log(Event("ret", "create_transport", "Logistics", Top.self, NoneVal))
    /\ UNCHANGED <<name, heap, exc, stdout, status, held, nops>>

\* ---------------------------------------------------------------- creators

\* Mutant of ProductOf: SeaLogistics copied from RoadLogistics with Truck left in.
ProductOfAlwaysTruck(c) == "Truck"

\* The product class each concrete creator's create_transport constructs.
ProductOf(c) == IF c = "RoadLogistics" THEN "Truck" ELSE "Ship"

\* Mutant of CreateTransport: the product class kept in state the creators
\* share, which a SeaLogistics call overwrites for every later call.
CreateTransportSharedState(c) ==
    /\ Running
    /\ Top.fn = "create_transport" /\ Top.impl = c /\ Top.pc = BodyLine(c, "create_transport")
    /\ LET new == Len(heap) + 1
           cls == IF \E o \in DOMAIN heap : heap[o] = "Ship" THEN "Ship" ELSE ProductOf(c)
       IN /\ heap' = Append(heap, cls)
          /\ ret' = ObjVal(new)
          /\ trace' = trace \o
                <<Event("new", "", cls, new, NoneVal),
                  Event("ret", "create_transport", c, Top.self, ObjVal(new))>>
    /\ stack' = PopResume
    /\ UNCHANGED <<name, exc, stdout, status, held, nops>>

\* Mutant of CreateTransport: one product per variant, constructed by the first
\* call and returned again by every later one.
CreateTransportCached(c) ==
    /\ Running
    /\ Top.fn = "create_transport" /\ Top.impl = c /\ Top.pc = BodyLine(c, "create_transport")
    /\ LET made == {o \in DOMAIN heap : heap[o] = ProductOf(c)}
           new == IF made = {} THEN Len(heap) + 1 ELSE CHOOSE o \in made : TRUE
       IN /\ heap' = IF made = {} THEN Append(heap, ProductOf(c)) ELSE heap
          /\ ret' = ObjVal(new)
          /\ trace' = trace \o
                (IF made = {} THEN <<Event("new", "", ProductOf(c), new, NoneVal)>> ELSE <<>>) \o
                <<Event("ret", "create_transport", c, Top.self, ObjVal(new))>>
    /\ stack' = PopResume
    /\ UNCHANGED <<name, exc, stdout, status, held, nops>>

\* RoadLogistics.create_transport, line 7: return Truck()
\* SeaLogistics.create_transport, line 11: return Ship()
CreateTransport(c) ==
    /\ Running
    /\ Top.fn = "create_transport" /\ Top.impl = c /\ Top.pc = BodyLine(c, "create_transport")
    /\ LET new == Len(heap) + 1
       IN /\ heap' = Append(heap, ProductOf(c))
          /\ ret' = ObjVal(new)
          /\ trace' = trace \o
                <<Event("new", "", ProductOf(c), new, NoneVal),
                  Event("ret", "create_transport", c, Top.self, ObjVal(new))>>
    /\ stack' = PopResume
    /\ UNCHANGED <<name, exc, stdout, status, held, nops>>

\* ---------------------------------------------------------------- products

\* Truck.deliver, Ship.deliver: return the fixed description of the variant
Deliver ==
    /\ Running
    /\ Top.fn = "deliver" /\ Top.impl \in Products
    /\ stack' = PopResume
    /\ ret' = StrVal(DeliverResult(Top.impl))
    /\ trace' = Log(Event("ret", "deliver", Top.impl, Top.self,
                          StrVal(DeliverResult(Top.impl))))
    /\ UNCHANGED <<name, heap, exc, stdout, status, held, nops>>

\* ---------------------------------------------------------------- main.py

\* client_code, line 5, the call: logistics.plan_delivery()
ClientCodeCall ==
    /\ Running
    /\ Top.fn = "client_code" /\ Top.pc = 5 /\ ~Top.after
    /\ LET f == MethodFrame(Top.logistics, "plan_delivery")
       IN /\ stack' = Push(f)
          /\ trace' = Log(Event("call", f.fn, f.impl, f.self, NoneVal))
    /\ UNCHANGED <<name, heap, ret, exc, stdout, status, held, nops>>

\* client_code, line 5, the print: print(<the value returned>); the function
\* then ends and returns None
ClientCodePrint ==
    /\ Running
    /\ Top.fn = "client_code" /\ Top.pc = 5 /\ Top.after
    /\ stdout' = Append(stdout, Str(ret))
    /\ ret' = NoneVal
    /\ stack' = PopResume
    /\ trace' = trace \o
          <<Event("print", "client_code", "main", Top.logistics, ret),
            Event("ret", "client_code", "main", Top.logistics, NoneVal)>>
    /\ UNCHANGED <<name, heap, exc, status, held, nops>>

\* Mutant of Banner: the line break at the start of the second literal left out.
BannerNoBreak(pc) ==
    IF pc = 8 THEN <<"App: Launched with RoadLogistics.">>
    ELSE <<"App: Launched with SeaLogistics.">>

\* The lines print writes for the literals of lines 8 and 11 (the literal of
\* line 11 starts with a line break).
Banner(pc) ==
    IF pc = 8 THEN <<"App: Launched with RoadLogistics.">>
    ELSE <<"", "App: Launched with SeaLogistics.">>

\* Mutant of CreatorAt: line 12 copied from line 9 with RoadLogistics left in.
CreatorAtAlwaysRoad(pc) == "RoadLogistics"

\* The creator lines 9 and 12 construct.
CreatorAt(pc) == IF pc = 9 THEN "RoadLogistics" ELSE "SeaLogistics"

\* The statement that follows each statement of the script; 13 is its end.
NextLine(pc) ==
    CASE pc = 8 -> 9
      [] pc = 9 -> 11
      [] pc = 11 -> 12
      [] OTHER -> 13

\* line 7: the script's statements run only under __name__ == "__main__"
AtScript == Running /\ name = "__main__" /\ Top.fn = "<module>"

\* lines 8 and 11: print(<banner>)
MainPrint ==
    /\ AtScript
    /\ Top.pc \in {8, 11}
    /\ stdout' = stdout \o Banner(Top.pc)
    /\ stack' = SetTop([Top EXCEPT !.pc = NextLine(Top.pc)])
    /\ trace' = Log(Event("banner", "<module>", "main", 0, StrVal(Banner(Top.pc)[Len(Banner(Top.pc))])))
    /\ UNCHANGED <<name, heap, ret, exc, status, held, nops>>

\* lines 9 and 12, the call: client_code(<Creator>())
MainCallClientCode ==
    /\ AtScript
    /\ Top.pc \in {9, 12} /\ ~Top.after
    /\ LET c == CreatorAt(Top.pc)
           new == Len(heap) + 1
       IN IF IsAbstract(c)
          THEN /\ exc' = "TypeError"
               /\ trace' = Log(Event("raise", "", c, 0, StrVal("TypeError")))
               /\ UNCHANGED <<heap, stack>>
          ELSE /\ heap' = Append(heap, c)
               /\ stack' = Push(ClientCodeFrame(new))
               /\ trace' = trace \o
                     <<Event("new", "", c, new, NoneVal),
                       Event("call", "client_code", "main", new, NoneVal)>>
               /\ exc' = exc
    /\ UNCHANGED <<name, ret, stdout, status, held, nops>>

\* lines 9 and 12, after the call returned: on to the next statement
MainResume ==
    /\ AtScript
    /\ Top.pc \in {9, 12} /\ Top.after
    /\ stack' = SetTop([Top EXCEPT !.pc = NextLine(Top.pc), !.after = FALSE])
    /\ UNCHANGED <<name, heap, ret, exc, stdout, status, held, nops, trace>>

\* the end of the script: the interpreter exits with status 0
MainExit ==
    /\ AtScript
    /\ Top.pc = NextLine(12)
    /\ status' = "exit0"
    /\ UNCHANGED <<name, heap, stack, ret, exc, stdout, held, nops, trace>>

\* ---------------------------------------------------------------- importing client

AtClient == Running /\ name # "__main__" /\ Top.fn = "<client>" /\ ~Top.after

CanStart == AtClient /\ nops < MaxOps /\ Len(heap) < MaxObjects

\* C(): ABCMeta refuses to instantiate an abstract class
ClientInstantiate(c) ==
    /\ CanStart
    /\ nops' = nops + 1
    /\ LET new == Len(heap) + 1
       IN IF IsAbstract(c)
          THEN /\ exc' = "TypeError"
               /\ trace' = Log(Event("raise", "", c, 0, StrVal("TypeError")))
               /\ UNCHANGED <<heap, held>>
          ELSE /\ heap' = Append(heap, c)
               /\ held' = held \cup {new}
               /\ trace' = Log(Event("new", "", c, new, NoneVal))
               /\ exc' = exc
    /\ UNCHANGED <<name, stack, ret, stdout, status>>

\* o.m() for a method m the class of o has
ClientCallMethod(o, m) ==
    /\ CanStart
    /\ Resolve(heap[o], m) # "ABC"
    /\ nops' = nops + 1
    /\ LET f == MethodFrame(o, m)
       IN /\ stack' = Push(f)
          /\ trace' = Log(Event("call", f.fn, f.impl, f.self, NoneVal))
    /\ UNCHANGED <<name, heap, ret, exc, stdout, status, held>>

\* Logistics.create_transport(o): the abstract operation invoked directly
ClientCallAbstract(o) ==
    /\ CanStart
    /\ heap[o] \in Creators
    /\ nops' = nops + 1
    /\ LET f == Frame("create_transport", "Logistics", BodyLine("Logistics", "create_transport"), o)
       IN /\ stack' = Push(f)
          /\ trace' = Log(Event("call", f.fn, f.impl, f.self, NoneVal))
    /\ UNCHANGED <<name, heap, ret, exc, stdout, status, held>>

\* client_code(o) for a creator o
ClientCallClientCode(o) ==
    /\ CanStart
    /\ heap[o] \in Creators
    /\ nops' = nops + 1
    /\ stack' = Push(ClientCodeFrame(o))
    /\ trace' = Log(Event("call", "client_code", "main", o, NoneVal))
    /\ UNCHANGED <<name, heap, ret, exc, stdout, status, held>>

\* the client takes the value its call returned, keeping a returned object
ClientReceive ==
    /\ Running
    /\ Top.fn = "<client>" /\ Top.after
    /\ held' = held \cup (IF ret.t = "obj" THEN {ret.o} ELSE {})
    /\ stack' = SetTop([Top EXCEPT !.after = FALSE])
    /\ UNCHANGED <<name, heap, ret, exc, stdout, status, nops, trace>>

\* del o: the client gives up a reference
ClientDrop(o) ==
    /\ AtClient
    /\ nops < MaxOps
    /\ nops' = nops + 1
    /\ held' = held \ {o}
    /\ UNCHANGED <<name, heap, stack, ret, exc, stdout, status, trace>>

\* ---------------------------------------------------------------- exceptions

\* A raised exception leaves each frame in turn; the importing client catches
\* it, the script does not and the interpreter exits with status 1.
Unwind ==
    /\ status = "running" /\ exc # ""
    /\ IF Depth > 1
       THEN /\ stack' = SubSeq(stack, 1, Len(stack) - 1)
            /\ UNCHANGED <<exc, status, trace>>
       ELSE IF Top.fn = "<client>"
       THEN /\ exc' = ""
            /\ trace' = Log(Event("caught", "<client>", "client", 0, StrVal(exc)))
            /\ UNCHANGED <<stack, status>>
       ELSE /\ status' = "exit1"
            /\ UNCHANGED <<stack, exc, trace>>
    /\ UNCHANGED <<name, heap, ret, stdout, held, nops>>

\* ---------------------------------------------------------------- Next

\* One step of the interpreter inside the library or the script.
Step ==
    \/ PlanDeliveryCallCreate
    \/ PlanDeliveryAssign
    \/ PlanDeliveryCallDeliver
    \/ PlanDeliveryReturn
    \/ LogisticsCreateTransport
    \/ \E c \in Creators : CreateTransport(c)
    \/ Deliver
    \/ ClientCodeCall
    \/ ClientCodePrint
    \/ MainPrint
    \/ MainCallClientCode
    \/ MainResume
    \/ MainExit
    \/ ClientReceive
    \/ Unwind

\* One operation the importing client starts.
ClientOp ==
    \/ \E c \in Classes : ClientInstantiate(c)
    \/ \E o \in held, m \in AllMethods : ClientCallMethod(o, m)
    \/ \E o \in held : ClientCallAbstract(o)
    \/ \E o \in held : ClientCallClientCode(o)
    \/ \E o \in held : ClientDrop(o)

Next == Step \/ ClientOp

Spec == Init /\ [][Next]_vars

\* The interpreter never stops between two statements.
FairSpec == Spec /\ WF_vars(Step)

\* ---------------------------------------------------------------- history

Idx == DOMAIN trace

IsCall(i, fn) == trace[i].ev = "call" /\ trace[i].fn = fn
IsRet(i, fn) == trace[i].ev = "ret" /\ trace[i].fn = fn

IsPrefix(a, b) == Len(a) <= Len(b) /\ a = SubSeq(b, 1, Len(a))

\* The returns of create_transport as a concrete creator defines it.
ConcreteCreateRets == {i \in Idx : IsRet(i, "create_transport") /\ trace[i].impl \in Creators}

\* The creator whose create_transport returned product p to its caller.
MadeBy(p) == {trace[i].obj : i \in {k \in ConcreteCreateRets : trace[k].val = ObjVal(p)}}

\* ---------------------------------------------------------------- C1

\* C1: for every concrete creator variant C, the value C().plan_delivery()
\* returned equals the value C().create_transport().deliver() returned: any
\* plan_delivery result of a creator equals any deliver result of a product that
\* create_transport made for a creator of the same variant.
C1_PlanEqualsCreateThenDeliver ==
    \A i, j \in Idx :
        (/\ IsRet(i, "plan_delivery")
         /\ IsRet(j, "deliver")
         /\ \E q \in MadeBy(trace[j].obj) : heap[q] = heap[trace[i].obj])
        => trace[i].val = trace[j].val

\* C1's case: the client called create_transport itself, then deliver on the
\* product it got, and plan_delivery on a creator of the same variant.
C1_Witness ==
    \E i, j \in Idx :
        /\ IsRet(i, "plan_delivery")
        /\ IsRet(j, "deliver") /\ trace[j].from = "deliver"
        /\ j > 1 /\ trace[j - 1].ev = "call" /\ trace[j - 1].from = "<client>"
        /\ \E q \in MadeBy(trace[j].obj) : heap[q] = heap[trace[i].obj]

\* ---------------------------------------------------------------- C2

\* C2: RoadLogistics.create_transport always returns a Truck and
\* SeaLogistics.create_transport a Ship; plan_delivery of a RoadLogistics always
\* yields the Truck description, of a SeaLogistics the Ship description, and a
\* RoadLogistics result never equals a SeaLogistics result.
C2_VariantSelectsProduct ==
    /\ \A i \in ConcreteCreateRets :
          /\ trace[i].val.t = "obj"
          /\ trace[i].val.o \in DOMAIN heap
          /\ trace[i].impl = "RoadLogistics" => heap[trace[i].val.o] = "Truck"
          /\ trace[i].impl = "SeaLogistics" => heap[trace[i].val.o] = "Ship"
    /\ \A i \in Idx : IsRet(i, "plan_delivery") =>
          /\ heap[trace[i].obj] = "RoadLogistics" => trace[i].val = StrVal(TruckDescription)
          /\ heap[trace[i].obj] = "SeaLogistics" => trace[i].val = StrVal(ShipDescription)
    /\ \A i, j \in Idx :
          (/\ IsRet(i, "plan_delivery") /\ heap[trace[i].obj] = "RoadLogistics"
           /\ IsRet(j, "plan_delivery") /\ heap[trace[j].obj] = "SeaLogistics")
          => trace[i].val # trace[j].val

\* C2's case: plan_delivery has returned for a RoadLogistics and for a SeaLogistics.
C2_Witness ==
    \E i, j \in Idx :
        /\ IsRet(i, "plan_delivery") /\ heap[trace[i].obj] = "RoadLogistics"
        /\ IsRet(j, "plan_delivery") /\ heap[trace[j].obj] = "SeaLogistics"

\* ---------------------------------------------------------------- C3

\* The abstract create_transport has run to its end and returned.
AbstractCreateRets == {i \in Idx : IsRet(i, "create_transport") /\ trace[i].impl = "Logistics"}

\* The attempts to construct an abstract class that were refused.
AbstractRefusals ==
    {i \in Idx : trace[i].ev = "raise" /\ trace[i].impl \in {"Logistics", "Transport"}
                  /\ trace[i].val = StrVal("TypeError")}

C4_SameVariantSameResult ==
    \A i, j \in Idx :
        (/\ IsRet(i, "plan_delivery")
         /\ IsRet(j, "plan_delivery")
         /\ heap[trace[i].obj] = heap[trace[j].obj])
        => trace[i].val = trace[j].val

\* C4's case: plan_delivery returned on two separate instances of one variant,
\* with a creator constructed between the two calls.
C4_Witness ==
    \E i, j, k \in Idx :
        /\ i < k /\ k < j
        /\ IsRet(i, "plan_delivery")
        /\ IsRet(j, "plan_delivery")
        /\ trace[i].obj # trace[j].obj
        /\ heap[trace[i].obj] = heap[trace[j].obj]
        /\ trace[k].ev = "new" /\ trace[k].impl \in Creators

\* ---------------------------------------------------------------- C5

\* What the claim says standard output holds when the script has run.
ExpectedOutput ==
    <<"App: Launched with RoadLogistics.", TruckDescription, "",
      "App: Launched with SeaLogistics.", ShipDescription>>

C5_OutputSoFar ==
    /\ IsPrefix(stdout, ExpectedOutput)
    /\ status # "exit1"
    /\ status = "exit0" => stdout = ExpectedOutput

\* C5: the entry point writes, in this order and nothing else, the RoadLogistics
\* banner, the Truck description, a blank line, the SeaLogistics banner and the
\* Ship description, and then exits with status 0.
C5_EntryPointOutput ==
    /\ [](name = "__main__" => C5_OutputSoFar)
    /\ (name = "__main__") ~> (status = "exit0" /\ stdout = ExpectedOutput)

\* C5's case: the script has run to its end.
C5_Witness == name = "__main__" /\ status = "exit0" /\ Len(stdout) = 5

\* ---------------------------------------------------------------- C6

\* The events from entry i of the history up to the first return of fn after
\* it, or up to the end of the history while that call is under way.
CallSpan(i, fn) ==
    LET ends == {j \in Idx : j > i /\ IsRet(j, fn)}
        last == IF ends = {} THEN Len(trace)
                ELSE CHOOSE j \in ends : \A k \in ends : j <= k
    IN SubSeq(trace, i + 1, last)

Act(e) == [ev |-> e.ev, fn |-> e.fn, obj |-> e.obj, val |-> e.val]

Acts(sq) == [k \in DOMAIN sq |-> Act(sq[k])]

\* What the claim says one plan_delivery call on creator o does, p being the
\* product create_transport returns and v the value deliver returns.
PlanDeliverySteps(o, p, v) ==
    <<[ev |-> "call", fn |-> "create_transport", obj |-> o, val |-> NoneVal],
      [ev |-> "new", fn |-> "", obj |-> p, val |-> NoneVal],
      [ev |-> "ret", fn |-> "create_transport", obj |-> o, val |-> ObjVal(p)],
      [ev |-> "call", fn |-> "deliver", obj |-> p, val |-> NoneVal],
      [ev |-> "ret", fn |-> "deliver", obj |-> p, val |-> v],
      [ev |-> "ret", fn |-> "plan_delivery", obj |-> o, val |-> v]>>

PlanCalls == {i \in Idx : IsCall(i, "plan_delivery")}

Completed(i) == \E j \in Idx : j > i /\ IsRet(j, "plan_delivery")

\* C6: each plan_delivery call on a concrete creator makes one create_transport
\* call on that creator, then one deliver call on the product it returned, then
\* returns deliver's result unchanged, in this order and with no step repeated.
C6_PlanDeliverySequence ==
    \A i \in PlanCalls :
        LET span == Acts(CallSpan(i, "plan_delivery"))
            o == trace[i].obj
            p == IF Len(span) >= 2 THEN span[2].obj ELSE 0
            v == IF Len(span) >= 5 THEN span[5].val ELSE NoneVal
        IN /\ IsPrefix(span, PlanDeliverySteps(o, p, v))
           /\ Completed(i) => span = PlanDeliverySteps(o, p, v)
           /\ Len(span) >= 2 => p \in DOMAIN heap /\ p # o

\* C6's case: a plan_delivery call has run through all its steps.
C6_Witness ==
    \E i \in PlanCalls : Completed(i) /\ Len(CallSpan(i, "plan_delivery")) = 6

\* ---------------------------------------------------------------- C7

\* The objects some frame, the return register or the client refers to.
Referenced ==
    held
    \cup {stack[k].self : k \in DOMAIN stack}
    \cup {stack[k].logistics : k \in DOMAIN stack}
    \cup {stack[k].transport.o : k \in DOMAIN stack}
    \cup {ret.o}

\* The returns of create_transport calls that plan_delivery made.
InsidePlan == {k \in ConcreteCreateRets : k > 2 /\ trace[k - 2].ev = "call"
                                          /\ trace[k - 2].from = "plan_delivery"}

DeliverCalls(p) == {i \in Idx : IsCall(i, "deliver") /\ trace[i].obj = p}

NewsIn(sq) == {k \in DOMAIN sq : sq[k].ev = "new"}

\* C7: every create_transport call on a concrete creator constructs exactly one
\* new product, no product is returned by two create_transport calls, and a
\* product created inside plan_delivery has deliver invoked on it exactly once
\* and is referenced nowhere once plan_delivery has returned.
C7_ProductsFreshAndEphemeral ==
    /\ \A k \in ConcreteCreateRets :
          /\ trace[k].val.t = "obj"
          /\ k > 2 /\ IsCall(k - 2, "create_transport")
          /\ trace[k - 1].ev = "new" /\ trace[k - 1].obj = trace[k].val.o
          /\ \A j \in Idx : (j < k - 1 /\ trace[j].ev = "new") => trace[j].obj # trace[k].val.o
    /\ \A i \in Idx : IsCall(i, "create_transport") /\ trace[i].impl \in Creators =>
          Cardinality(NewsIn(CallSpan(i, "create_transport"))) <= 1
    /\ \A k, l \in ConcreteCreateRets : trace[k].val = trace[l].val => k = l
    /\ \A k \in InsidePlan :
          LET p == trace[k].val.o
              returned == \E j \in Idx : j > k /\ IsRet(j, "plan_delivery")
          IN /\ Cardinality(DeliverCalls(p)) <= 1
             /\ returned => Cardinality(DeliverCalls(p)) = 1 /\ p \notin Referenced

\* C7's case: plan_delivery has returned after creating a product, and the
\* client has called create_transport itself as well.
C7_Witness ==
    /\ \E k \in InsidePlan : \E j \in Idx : j > k /\ IsRet(j, "plan_delivery")
    /\ ConcreteCreateRets \ InsidePlan # {}

\* ---------------------------------------------------------------- C8

\* A step of a call with the objects, classes and values left out.
Shape(e) == [ev |-> e.ev, fn |-> e.fn, from |-> e.from]

Shapes(sq) == [k \in DOMAIN sq |-> Shape(sq[k])]

\* C8: plan_delivery is never overridden: the concrete creators define only
\* create_transport, every plan_delivery call on either variant runs the one
\* body Logistics defines (lines 10-11), and two completed calls differ in
\* nothing but the objects, the product class and its description.
C8_TemplateNeverOverridden ==
    /\ \A c \in Creators :
          /\ Methods(c) = {"create_transport"}
          /\ Resolve(c, "plan_delivery") = "Logistics"
    /\ \A k \in DOMAIN stack : stack[k].fn = "plan_delivery" =>
          stack[k].impl = "Logistics" /\ stack[k].pc \in {10, 11}
    /\ \A i \in Idx : IsCall(i, "plan_delivery") \/ IsRet(i, "plan_delivery") =>
          trace[i].impl = "Logistics"
    /\ \A i, j \in PlanCalls : Completed(i) /\ Completed(j) =>
          Shapes(CallSpan(i, "plan_delivery")) = Shapes(CallSpan(j, "plan_delivery"))

\* C8's case: plan_delivery has run to its end on a RoadLogistics and on a
\* SeaLogistics.
C8_Witness ==
    \E i, j \in PlanCalls :
        /\ Completed(i) /\ heap[trace[i].obj] = "RoadLogistics"
        /\ Completed(j) /\ heap[trace[j].obj] = "SeaLogistics"
        /\ Len(CallSpan(j, "plan_delivery")) = 6

\* ---------------------------------------------------------------- C9

\* The entries of the history the claim speaks of: the constructions of
\* creators, the calls and returns of client_code and plan_delivery, the prints.
OfEntryPoint(e) ==
    \/ e.ev = "new" /\ e.impl \in Creators \cup {"Logistics"}
    \/ e.ev \in {"call", "ret"} /\ e.fn \in {"client_code", "plan_delivery"}
    \/ e.ev = "print"
    \/ e.ev = "raise"

Seen(e) ==
    [ev |-> e.ev, fn |-> e.fn, obj |-> e.obj, val |-> e.val,
     cls |-> IF e.obj \in DOMAIN heap THEN heap[e.obj] ELSE ""]

EntryPointHistory ==
    LET sq == SelectSeq(trace, OfEntryPoint)
    IN [k \in DOMAIN sq |-> Seen(sq[k])]

\* What the claim says one client_code call on creator o of class c does, v
\* being the value plan_delivery returns.
LaunchSteps(c, o, v) ==
    <<[ev |-> "new", fn |-> "", obj |-> o, val |-> NoneVal, cls |-> c],
      [ev |-> "call", fn |-> "client_code", obj |-> o, val |-> NoneVal, cls |-> c],
      [ev |-> "call", fn |-> "plan_delivery", obj |-> o, val |-> NoneVal, cls |-> c],
      [ev |-> "ret", fn |-> "plan_delivery", obj |-> o, val |-> v, cls |-> c],
      [ev |-> "print", fn |-> "client_code", obj |-> o, val |-> v, cls |-> c],
      [ev |-> "ret", fn |-> "client_code", obj |-> o, val |-> NoneVal, cls |-> c]>>

\* C9: the entry point constructs one RoadLogistics and one SeaLogistics,
\* passes each once to client_code, each client_code call invokes plan_delivery
\* once on the creator it was given and prints the returned result once, and the
\* RoadLogistics call is complete before the SeaLogistics creator is constructed.
C9_EntryPointSequence ==
    name = "__main__" =>
        LET h == EntryPointHistory
            r == IF Len(h) >= 1 THEN h[1].obj ELSE 0
            v == IF Len(h) >= 4 THEN h[4].val ELSE NoneVal
            s == IF Len(h) >= 7 THEN h[7].obj ELSE 0
            w == IF Len(h) >= 10 THEN h[10].val ELSE NoneVal
            all == LaunchSteps("RoadLogistics", r, v) \o LaunchSteps("SeaLogistics", s, w)
        IN /\ IsPrefix(h, all)
           /\ Len(h) >= 7 => r # s
           /\ Len(h) >= 4 => v.t = "str"
           /\ Len(h) >= 10 => w.t = "str"
           /\ status = "exit0" => h = all
           /\ status # "exit1"

\* C9's case: the script has run to its end, both client_code calls made.
C9_Witness ==
    /\ name = "__main__" /\ status = "exit0"
    /\ Len(EntryPointHistory) = 12

\* ---------------------------------------------------------------- C10

InCall == Depth > 1

C10_NoFailure ==
    /\ \A i \in Idx : trace[i].ev = "raise" =>
          trace[i].fn = "" /\ trace[i].impl \in {"Logistics", "Transport"}
    /\ exc # "" => exc = "TypeError" /\ ~InCall
    /\ status # "exit1"
    /\ \A i \in Idx : IsRet(i, "plan_delivery") => trace[i].val.t = "str"

\* C10: apart from constructing an abstract type, nothing fails: for the
\* concrete creators, construction, create_transport, plan_delivery and
\* client_code never raise, every call made returns, and plan_delivery always
\* returns a string, never None.
C10_ConcretePathsSucceed ==
    /\ []C10_NoFailure
    /\ InCall ~> ~InCall

\* C10's case: the client constructed a concrete creator and its calls of
\* create_transport, plan_delivery and client_code have all returned.
C10_Witness ==
    /\ \E i \in ConcreteCreateRets : trace[i - 2].from = "<client>"
    /\ \E i \in Idx : IsRet(i, "plan_delivery") /\ trace[i - 6].from = "<client>"
    /\ \E i \in Idx : IsRet(i, "client_code")
    /\ ~InCall

====
